---- MODULE Spec2Model ----
(***************************************************************************)
(* prince: PCA (src/prince/pca.py) and MCA (src/prince/mca.py).            *)
(*                                                                         *)
(* A PCA instance is its constructor parameters (params) and its instance  *)
(* dictionary (self): the attributes fit assigns.  hasattr(self, a) is     *)
(* a \in DOMAIN self.  The caller is at pc: idle, inside one of fit's      *)
(* statements, or holding the value/exception of the call it just made.    *)
(*                                                                         *)
(* Numbers are exact: a cell is num/den, or num/sqrt(den) when root, and   *)
(* den = 0 is a non-finite value.  What the SVD engine returns is not      *)
(* computed: svd_ is the decomposition OF a given matrix, and products     *)
(* with its factors are terms naming their operands.                       *)
(***************************************************************************)
EXTENDS Integers, Sequences, FiniteSets, TLC

VARIABLES
    params,     \* the constructor's arguments (PCA.__init__)
    self,       \* the attributes fit has assigned to the PCA instance
    pc,         \* where the caller is: idle, inside fit, or holding a call's outcome
    call,       \* the call in progress or just finished
    fitted_on,  \* history: the argument of the last fit call that returned
    fit_failed, \* history: some fit call on the instance has raised
    mca,        \* the attributes of the MCA instance
    mcall       \* the MCA call just finished

vars == <<params, self, pc, call, fitted_on, fit_failed, mca, mcall>>

\* -------------------------------------------------------------- bounds
MaxCols == 2
MaxComponents == 2
MaxVars == 2

\* -------------------------------------------------------------- numbers
R(x) == [num |-> x, den |-> 1, root |-> FALSE]
INF == [num |-> 1, den |-> 0, root |-> FALSE]
IsFiniteCell(c) == c.den # 0

Range(s) == {s[i] : i \in DOMAIN s}
IndexOf(s, e) == CHOOSE i \in DOMAIN s : s[i] = e
Min(a, b) == IF a <= b THEN a ELSE b

RECURSIVE SumSeq(_)
SumSeq(s) == IF s = <<>> THEN 0 ELSE Head(s) + SumSeq(Tail(s))

\* A matrix is a sequence of columns, a column a sequence of cells.
NumCols(M) == Len(M)
NumRows(M) == IF M = <<>> THEN 0 ELSE Len(M[1])
IsFiniteMatrix(M) == \A j \in DOMAIN M : \A i \in DOMAIN M[j] : IsFiniteCell(M[j][i])

\* A term of the numeric library: an operation and its operands.
Sym(op, args) == [op |-> op, args |-> args]

\* -------------------------------------------------------------- inputs
Names == {"a", "b"}
Engines == {"sklearn", "unsupported"}
ColVecs == {<<R(0), R(2)>>, <<R(1), R(4)>>}
BadVec == <<INF, R(1)>>

ColumnSeqs(n) == {c \in [1..n -> Names] : \A i, j \in 1..n : c[i] = c[j] => i = j}
DataOf(n) == [1..n -> ColVecs] \cup {[j \in 1..n |-> BadVec]}

\* A pandas DataFrame (labeled) or a numpy 2-d array.
Tables ==
    UNION {{[labeled |-> TRUE, columns |-> c, data |-> d] :
                c \in ColumnSeqs(n), d \in DataOf(n)} :
           n \in 1..Min(MaxCols, Cardinality(Names))}
    \cup
    UNION {{[labeled |-> FALSE, columns |-> <<>>, data |-> d] : d \in DataOf(n)} :
           n \in 1..MaxCols}

\* -------------------------------------------------------------- results
Ok(s, v) == [self |-> s, status |-> "ok", value |-> v]
Err(s, e) == [self |-> s, status |-> e, value |-> Sym("raise", <<e>>)]

hasattr(s, a) == a \in DOMAIN s
setattr(s, a, v) == [x \in (DOMAIN s) \cup {a} |-> IF x = a THEN v ELSE s[x]]

\* ------------------------------------------------- sklearn StandardScaler
ColSum(v) == SumSeq([i \in DOMAIN v |-> v[i].num])
ColSumSq(v) == SumSeq([i \in DOMAIN v |-> v[i].num * v[i].num])

\* fit: per column the mean (sum over n) and, with_std, n^2 times the variance.
StandardScaler_fit(with_mean, with_std, M) ==
    [with_mean |-> with_mean, with_std |-> with_std, n |-> NumRows(M),
     sum_ |-> [j \in DOMAIN M |-> ColSum(M[j])],
     var_ |-> [j \in DOMAIN M |->
                  IF with_std THEN NumRows(M) * ColSumSq(M[j]) - ColSum(M[j]) * ColSum(M[j])
                  ELSE 0]]

\* (x - mean) / scale, a zero scale being replaced by 1.
ScaleCell(sc, j, x) ==
    LET n0 == sc.n * x.num - (IF sc.with_mean THEN sc.sum_[j] ELSE 0)
    IN IF sc.with_std /\ sc.var_[j] # 0
       THEN [num |-> n0, den |-> sc.var_[j], root |-> TRUE]
       ELSE [num |-> n0, den |-> sc.n, root |-> FALSE]

StandardScaler_apply(sc, M) == [j \in DOMAIN M |-> [i \in DOMAIN M[j] |-> ScaleCell(sc, j, M[j][i])]]

\* transform validates its input: finite, as many columns as were fitted.
StandardScaler_rejects(sc, M) == ~IsFiniteMatrix(M) \/ NumCols(M) # Len(sc.sum_)

\* -------------------------------------------------------------- svd.compute_svd
compute_svd_rejects(M, n_components, engine) ==
    \/ n_components > Min(NumRows(M), NumCols(M))
    \/ engine = "unsupported"

compute_svd(M, n_components, engine) == [X |-> M, n_components |-> n_components, engine |-> engine]


\* -------------------------------------------------------------- PCA.fit
utils_check_array_rejects(M) == ~IsFiniteMatrix(M) \/ NumCols(M) = 0 \/ NumRows(M) = 0

_check_input_rejects(p, M) == p.check_input /\ utils_check_array_rejects(M)

rescale(p) == p.rescale_with_mean \/ p.rescale_with_std

\* np.sum(np.square(X)) / len(X): per column the sum of squares, over the row count.
SquareSum(col) ==
    [num |-> SumSeq([i \in DOMAIN col |-> col[i].num * col[i].num]),
     den |-> IF col[1].root THEN col[1].den ELSE col[1].den * col[1].den]

total_inertia(M) == [sq |-> [j \in DOMAIN M |-> SquareSum(M[j])], n |-> NumRows(M)]

\* if isinstance(X, pd.DataFrame): self.feature_names_in_ = X.columns.tolist()
fit_feature_names(s, X) == IF X.labeled THEN setattr(s, "feature_names_in_", X.columns) ELSE s

\* n_features_in_ and, too early, total_inertia_ of the matrix as it then is.
fit_n_features_inertia(s, M) ==
    setattr(setattr(s, "n_features_in_", NumCols(M)), "total_inertia_", total_inertia(M))

\* self.n_features_in_ = X.shape[1]
fit_n_features(s, M) == setattr(s, "n_features_in_", NumCols(M))

\* StandardScaler(...).fit(X) validates X before anything is assigned.
fit_scaler_rejects(p, M) == rescale(p) /\ utils_check_array_rejects(M)

\* self.scaler_ = StandardScaler(...).fit(X)
fit_scaler(p, s, M) ==
    IF rescale(p)
    THEN setattr(s, "scaler_", StandardScaler_fit(p.rescale_with_mean, p.rescale_with_std, M))
    ELSE s

\* X = self.scaler_.transform(X)
fit_scaled(p, s, M) == IF rescale(p) THEN StandardScaler_apply(s["scaler_"], M) ELSE M

\* self.svd_ = svd.compute_svd(X=X, n_components=..., engine=...)
fit_svd(p, s, M) == setattr(s, "svd_", compute_svd(M, p.n_components, p.engine))

\* self.total_inertia_ = np.sum(np.square(X)) / len(X)
fit_total_inertia(s, M) == setattr(s, "total_inertia_", total_inertia(M))

\* The whole of fit, statement after statement.  A matrix with a non-finite cell that
\* reaches compute_svd is taken here on the branch where the engine returns.
fit(p, s, X) ==
    LET s1 == fit_feature_names(s, X)
        M == X.data
        s2 == fit_n_features(s1, M)
        s3 == fit_scaler(p, s2, M)
        M1 == fit_scaled(p, s3, M)
        s4 == fit_svd(p, s3, M1)
        s5 == fit_total_inertia(s4, M1)
    IN IF _check_input_rejects(p, M) THEN Err(s1, "ValueError")
       ELSE IF fit_scaler_rejects(p, M) THEN Err(s2, "ValueError")
       ELSE IF compute_svd_rejects(M1, p.n_components, p.engine) THEN Err(s3, "ValueError")
       ELSE Ok(s5, Sym("self", <<>>))

\* -------------------------------------------------------------- fitted check
\* The check made on an attribute that fit assigns early.
_check_is_fitted_early(s) == hasattr(s, "n_features_in_")

\* utils.validation.check_is_fitted(self, "total_inertia_")
_check_is_fitted(s) == hasattr(s, "total_inertia_")

\* -------------------------------------------------------------- PCA._scale
\* X[names]: the named columns, in the order of names.
Select(X, names) ==
    [labeled |-> TRUE, columns |-> names,
     data |-> [i \in DOMAIN names |-> X.data[IndexOf(X.columns, names[i])]]]

\* X.columns.difference(self.feature_names_in_, sort=False).tolist()
sup_variables(s, X) == SelectSeq(X.columns, LAMBDA c : c \notin Range(s["feature_names_in_"]))

\* StandardScaler(...).fit_transform(X[sup_variables])
fit_transform_sup(p, M) ==
    StandardScaler_apply(StandardScaler_fit(p.rescale_with_mean, p.rescale_with_std, M), M)

\* lines 114-124: the fitted columns through the stored scaler, then the others through a
\* scaler of their own, side by side in that order.
_scale_with_sup(p, s, X) ==
    IF ~(Range(s["feature_names_in_"]) \subseteq Range(X.columns)) THEN Err(s, "KeyError")
    ELSE IF StandardScaler_rejects(s["scaler_"], Select(X, s["feature_names_in_"]).data)
         THEN Err(s, "ValueError")
    ELSE IF utils_check_array_rejects(Select(X, sup_variables(s, X)).data)
         THEN Err(s, "ValueError")
    ELSE Ok(s, StandardScaler_apply(s["scaler_"], Select(X, s["feature_names_in_"]).data)
               \o fit_transform_sup(p, Select(X, sup_variables(s, X)).data))

\* The stored scaler fitted again on the table it is asked to transform.
_scale_refit(p, s, X) ==
    IF utils_check_array_rejects(X.data) THEN Err(s, "ValueError")
    ELSE Ok(setattr(s, "scaler_",
                    StandardScaler_fit(p.rescale_with_mean, p.rescale_with_std, X.data)),
            fit_transform_sup(p, X.data))

\* line 126: self.scaler_.transform(X.to_numpy())
_scale_no_sup(p, s, X) ==
    IF StandardScaler_rejects(s["scaler_"], X.data) THEN Err(s, "ValueError")
    ELSE Ok(s, StandardScaler_apply(s["scaler_"], X.data))

_scale(p, s, X) ==
    IF ~hasattr(s, "scaler_") THEN Ok(s, X.data)
    ELSE IF ~X.labeled \/ ~hasattr(s, "feature_names_in_") THEN Err(s, "AttributeError")
    ELSE IF sup_variables(s, X) # <<>> THEN _scale_with_sup(p, s, X)
    ELSE _scale_no_sup(p, s, X)

\* -------------------------------------------------------------- derived properties
eigenvalues_(s) ==
    IF ~_check_is_fitted(s) THEN Err(s, "NotFittedError")
    ELSE IF ~hasattr(s, "svd_") THEN Err(s, "AttributeError")
    ELSE Ok(s, Sym("square(s)/len(U)", <<s["svd_"]>>))

percentage_of_variance_(s) ==
    IF ~_check_is_fitted(s) THEN Err(s, "NotFittedError")
    ELSE LET e == eigenvalues_(s)
         IN IF e.status # "ok" THEN e
            ELSE Ok(e.self, Sym("div", <<e.value, e.self["total_inertia_"]>>))

cumulative_percentage_of_variance_(s) ==
    IF ~_check_is_fitted(s) THEN Err(s, "NotFittedError")
    ELSE LET q == percentage_of_variance_(s)
         IN IF q.status # "ok" THEN q ELSE Ok(q.self, Sym("cumsum", <<q.value>>))

eigenvalues_summary(s) ==
    IF ~_check_is_fitted(s) THEN Err(s, "NotFittedError")
    ELSE LET e == eigenvalues_(s)
             q == percentage_of_variance_(e.self)
             c == cumulative_percentage_of_variance_(q.self)
         IN IF e.status # "ok" THEN e
            ELSE IF q.status # "ok" THEN q
            ELSE IF c.status # "ok" THEN c
            ELSE Ok(c.self, Sym("summary", <<e.value, q.value, c.value>>))

\* -------------------------------------------------------------- row projections
\* U * sqrt(len(U)) * sqrt(eigenvalues_), which is U * s.
fast_coordinates(svd) == Sym("U*s", <<svd>>)

\* X.dot(svd.V.T).  For the decomposed matrix itself X V^T = U diag(s).
dot_Vt(M, svd) == IF M = svd.X THEN fast_coordinates(svd) ELSE Sym("X.dot(V.T)", <<M, svd>>)

row_coordinates(p, s, X, ignore_supplementary_variables) ==
    IF ~_check_is_fitted(s) THEN Err(s, "NotFittedError")
    ELSE LET restrict == /\ ignore_supplementary_variables
                         /\ hasattr(s, "feature_names_in_")
                         /\ X.labeled
         IN IF restrict /\ ~(Range(s["feature_names_in_"]) \subseteq Range(X.columns))
            THEN Err(s, "KeyError")
            ELSE LET X1 == IF restrict THEN Select(X, s["feature_names_in_"]) ELSE X
                     sc == _scale(p, s, X1)
                 IN IF sc.status # "ok" THEN sc
                    ELSE IF ~hasattr(sc.self, "svd_") THEN Err(sc.self, "AttributeError")
                    ELSE IF NumCols(sc.value) # NumCols(sc.self["svd_"].X)
                         THEN Err(sc.self, "ValueError")
                    ELSE Ok(sc.self, dot_Vt(sc.value, sc.self["svd_"]))

transform(p, s, X) ==
    IF ~_check_is_fitted(s) THEN Err(s, "NotFittedError")
    ELSE IF _check_input_rejects(p, X.data) THEN Err(s, "ValueError")
    ELSE row_coordinates(p, s, X, TRUE)

inverse_transform(s, C) ==
    IF ~_check_is_fitted(s) THEN Err(s, "NotFittedError")
    ELSE IF ~hasattr(s, "V_") THEN Err(s, "AttributeError")
    ELSE IF hasattr(s, "scaler_")
         THEN Ok(s, Sym("scaler_.inverse_transform", <<s["scaler_"], Sym("dot", <<C, s["V_"]>>)>>))
    ELSE Ok(s, Sym("dot", <<C, s["V_"]>>))

row_standard_coordinates(p, s, X) ==
    IF ~_check_is_fitted(s) THEN Err(s, "NotFittedError")
    ELSE LET rc == row_coordinates(p, s, X, TRUE)
             e == eigenvalues_(rc.self)
         IN IF rc.status # "ok" THEN rc
            ELSE IF e.status # "ok" THEN e
            ELSE Ok(e.self, Sym("div", <<rc.value, e.value>>))

row_cosine_similarities(p, s, X) ==
    IF ~_check_is_fitted(s) THEN Err(s, "NotFittedError")
    ELSE LET sc == _scale(p, s, X)
             rc == row_coordinates(p, sc.self, X, TRUE)
         IN IF sc.status # "ok" THEN sc
            ELSE IF rc.status # "ok" THEN rc
            ELSE Ok(rc.self, Sym("div", <<Sym("square", <<rc.value>>),
                                          Sym("square.sum(axis=1)", <<sc.value>>)>>))

row_contributions(p, s, X) ==
    IF ~_check_is_fitted(s) THEN Err(s, "NotFittedError")
    ELSE LET rc == row_coordinates(p, s, X, TRUE)
             e == eigenvalues_(rc.self)
         IN IF rc.status # "ok" THEN rc
            ELSE IF e.status # "ok" THEN e
            ELSE Ok(e.self, Sym("div", <<Sym("square/len", <<rc.value, NumRows(X.data)>>),
                                         e.value>>))

\* -------------------------------------------------------------- column projections
\* X.T @ (U / sqrt(len(U))), one row per column of the scaled matrix, labeled by
\* index = X.columns.
column_coordinates(p, s, X) ==
    IF ~_check_is_fitted(s) THEN Err(s, "NotFittedError")
    ELSE LET sc == _scale(p, s, X)
         IN IF sc.status # "ok" THEN sc
            ELSE IF ~hasattr(sc.self, "svd_") THEN Err(sc.self, "AttributeError")
            ELSE IF NumRows(sc.value) # NumRows(sc.self["svd_"].X)
                 THEN Err(sc.self, "ValueError")
            ELSE Ok(sc.self,
                    [index |-> X.columns,
                     rows |-> [j \in DOMAIN sc.value |->
                                  Sym("col.T@U/sqrt(n)", <<sc.value[j], sc.self["svd_"]>>)]])

column_correlations(p, s, X) ==
    IF ~_check_is_fitted(s) THEN Err(s, "NotFittedError") ELSE column_coordinates(p, s, X)

column_cosine_similarities(p, s, X) ==
    IF ~_check_is_fitted(s) THEN Err(s, "NotFittedError")
    ELSE LET cc == column_correlations(p, s, X)
         IN IF cc.status # "ok" THEN cc ELSE Ok(cc.self, Sym("square", <<cc.value>>))

column_contributions(p, s, X) ==
    IF ~_check_is_fitted(s) THEN Err(s, "NotFittedError")
    ELSE LET cc == column_coordinates(p, s, X)
             e == eigenvalues_(cc.self)
         IN IF cc.status # "ok" THEN cc
            ELSE IF e.status # "ok" THEN e
            ELSE Ok(e.self, Sym("div", <<Sym("square", <<cc.value>>), e.value>>))

\* -------------------------------------------------------------- the PCA instance
NoTable == [labeled |-> FALSE, columns |-> <<>>, data |-> <<>>]

NoCall ==
    [op |-> "none", arg |-> NoTable, opt |-> FALSE, X |-> <<>>, before |-> <<>>,
     status |-> "none", value |-> Sym("none", <<>>)]

Params ==
    [rescale_with_mean : BOOLEAN, rescale_with_std : BOOLEAN,
     n_components : 1..MaxComponents, check_input : BOOLEAN, engine : Engines]

InitPCA ==
    /\ params \in Params
    /\ self = <<>>
    /\ pc = "idle"
    /\ call = NoCall
    /\ fitted_on = NoTable
    /\ fit_failed = FALSE

InitMCAIdle ==
    /\ mca = <<>>
    /\ mcall = [op |-> "none", arg |-> NoTable, oh |-> NoTable, before |-> <<>>,
                status |-> "none", value |-> Sym("none", <<>>)]

Init == InitPCA /\ InitMCAIdle

\* The call op(arg) made on instance `before` has ended with outcome r.
Returned(op, arg, opt, before, r) ==
    [op |-> op, arg |-> arg, opt |-> opt, X |-> <<>>, before |-> before,
     status |-> r.status, value |-> r.value]

Entered(op, arg, M) ==
    [op |-> op, arg |-> arg, opt |-> FALSE, X |-> M, before |-> self,
     status |-> "running", value |-> Sym("none", <<>>)]

Raise(e) ==
    /\ pc' = "returned"
    /\ fit_failed' = TRUE
    /\ call' = [call EXCEPT !.X = <<>>, !.status = e, !.value = Sym("raise", <<e>>)]

\* fit, lines 69-73: record the column names, convert, validate.
FitEnter(op, X) ==
    /\ self' = fit_feature_names(self, X)
    /\ IF _check_input_rejects(params, X.data)
       THEN /\ pc' = "returned"
            /\ call' = Returned(op, X, FALSE, self, Err(self', "ValueError"))
            /\ fit_failed' = TRUE
       ELSE /\ pc' = "fit_n_features"
            /\ call' = Entered(op, X, X.data)
            /\ UNCHANGED fit_failed
    /\ UNCHANGED <<params, fitted_on, mca, mcall>>

Fit ==
    /\ pc = "idle"
    /\ \E X \in Tables : FitEnter("fit", X)

\* fit_transform is wrapped by check_is_fitted, then calls fit.
FitTransform ==
    /\ pc = "idle"
    /\ \E X \in Tables :
          IF ~_check_is_fitted(self)
          THEN /\ pc' = "returned"
               /\ call' = Returned("fit_transform", X, FALSE, self, Err(self, "NotFittedError"))
               /\ UNCHANGED <<params, self, fitted_on, fit_failed, mca, mcall>>
          ELSE FitEnter("fit_transform", X)

FitNFeatures ==
    /\ pc = "fit_n_features"
    /\ self' = fit_n_features(self, call.X)
    /\ pc' = "fit_scaler"
    /\ UNCHANGED <<params, call, fitted_on, fit_failed, mca, mcall>>

FitScaler ==
    /\ pc = "fit_scaler"
    /\ IF fit_scaler_rejects(params, call.X)
       THEN Raise("ValueError") /\ UNCHANGED self
       ELSE /\ self' = fit_scaler(params, self, call.X)
            /\ call' = [call EXCEPT !.X = fit_scaled(params, self', call.X)]
            /\ pc' = "fit_svd"
            /\ UNCHANGED fit_failed
    /\ UNCHANGED <<params, fitted_on, mca, mcall>>

\* What the engine does with a non-finite matrix is not defined: it raises or returns.
FitSvd ==
    /\ pc = "fit_svd"
    /\ \/ /\ compute_svd_rejects(call.X, params.n_components, params.engine)
          /\ Raise("ValueError")
          /\ UNCHANGED self
       \/ /\ ~compute_svd_rejects(call.X, params.n_components, params.engine)
          /\ ~IsFiniteMatrix(call.X)
          /\ Raise("LinAlgError")
          /\ UNCHANGED self
       \/ /\ ~compute_svd_rejects(call.X, params.n_components, params.engine)
          /\ self' = fit_svd(params, self, call.X)
          /\ pc' = "fit_total_inertia"
          /\ UNCHANGED <<call, fit_failed>>
    /\ UNCHANGED <<params, fitted_on, mca, mcall>>

\* fit's last assignment and return; fit_transform then derives the coordinates from U.
FitTotalInertia ==
    /\ pc = "fit_total_inertia"
    /\ self' = fit_total_inertia(self, call.X)
    /\ pc' = "returned"
    /\ call' = [call EXCEPT !.X = <<>>, !.status = "ok",
                            !.value = IF call.op = "fit_transform"
                                      THEN fast_coordinates(self'["svd_"])
                                      ELSE Sym("self", <<>>)]
    /\ fitted_on' = call.arg
    /\ UNCHANGED <<params, fit_failed, mca, mcall>>

\* A call that is not fit: it runs to its outcome in one step.
Finish(op, arg, opt, r) ==
    /\ pc' = "returned"
    /\ self' = r.self
    /\ call' = Returned(op, arg, opt, self, r)
    /\ UNCHANGED <<params, fitted_on, fit_failed, mca, mcall>>

Eigenvalues == pc = "idle" /\ Finish("eigenvalues_", NoTable, FALSE, eigenvalues_(self))

PercentageOfVariance ==
    pc = "idle" /\ Finish("percentage_of_variance_", NoTable, FALSE, percentage_of_variance_(self))

CumulativePercentageOfVariance ==
    /\ pc = "idle"
    /\ Finish("cumulative_percentage_of_variance_", NoTable, FALSE,
              cumulative_percentage_of_variance_(self))

EigenvaluesSummary ==
    pc = "idle" /\ Finish("eigenvalues_summary", NoTable, FALSE, eigenvalues_summary(self))

RowCoordinates ==
    /\ pc = "idle"
    /\ \E X \in Tables, ignore \in BOOLEAN :
          Finish("row_coordinates", X, ignore, row_coordinates(params, self, X, ignore))

Transform ==
    pc = "idle" /\ \E X \in Tables : Finish("transform", X, FALSE, transform(params, self, X))

\* The argument is row_coordinates(X) (opt) when that can be had, or X itself.
InverseTransform ==
    /\ pc = "idle"
    /\ \E X \in Tables :
          \/ Finish("inverse_transform", X, FALSE, inverse_transform(self, X.data))
          \/ /\ row_coordinates(params, self, X, TRUE).status = "ok"
             /\ Finish("inverse_transform", X, TRUE,
                       inverse_transform(self, row_coordinates(params, self, X, TRUE).value))

RowStandardCoordinates ==
    /\ pc = "idle"
    /\ \E X \in Tables :
          Finish("row_standard_coordinates", X, FALSE, row_standard_coordinates(params, self, X))

RowCosineSimilarities ==
    /\ pc = "idle"
    /\ \E X \in Tables :
          Finish("row_cosine_similarities", X, FALSE, row_cosine_similarities(params, self, X))

RowContributions ==
    /\ pc = "idle"
    /\ \E X \in Tables : Finish("row_contributions", X, FALSE, row_contributions(params, self, X))

ColumnCoordinates ==
    /\ pc = "idle"
    /\ \E X \in Tables : Finish("column_coordinates", X, FALSE, column_coordinates(params, self, X))

ColumnCorrelations ==
    /\ pc = "idle"
    /\ \E X \in Tables : Finish("column_correlations", X, FALSE, column_correlations(params, self, X))

ColumnCosineSimilarities ==
    /\ pc = "idle"
    /\ \E X \in Tables :
          Finish("column_cosine_similarities", X, FALSE, column_cosine_similarities(params, self, X))

ColumnContributions ==
    /\ pc = "idle"
    /\ \E X \in Tables :
          Finish("column_contributions", X, FALSE, column_contributions(params, self, X))

\* The caller takes the outcome and is free to make the next call.
Return ==
    /\ pc = "returned"
    /\ pc' = "idle"
    /\ call' = NoCall
    /\ UNCHANGED <<params, self, fitted_on, fit_failed, mca, mcall>>

Next ==
    \/ Fit
    \/ FitTransform
    \/ FitNFeatures
    \/ FitScaler
    \/ FitSvd
    \/ FitTotalInertia
    \/ Eigenvalues
    \/ PercentageOfVariance
    \/ CumulativePercentageOfVariance
    \/ EigenvaluesSummary
    \/ RowCoordinates
    \/ Transform
    \/ InverseTransform
    \/ RowStandardCoordinates
    \/ RowCosineSimilarities
    \/ RowContributions
    \/ ColumnCoordinates
    \/ ColumnCorrelations
    \/ ColumnCosineSimilarities
    \/ ColumnContributions
    \/ Return

Spec == Init /\ [][Next]_vars

\* -------------------------------------------------------------- MCA
\* A categorical table: MaxVars columns at most, named 1, 2, ..., two rows of categories.
CatOrder == <<"x", "y">>
CatVecs == [1..2 -> Range(CatOrder)]

CatTables ==
    UNION {{[labeled |-> TRUE, columns |-> [i \in 1..n |-> i], data |-> d] :
                d \in [1..n -> CatVecs]} :
           n \in 1..MaxVars}

\* pd.get_dummies(X, columns=X.columns): for each column, in order, one indicator column
\* per category found in that column of X, the categories sorted.
RECURSIVE dummy_columns(_, _)
dummy_columns(X, j) ==
    IF j > Len(X.columns) THEN <<>>
    ELSE LET found == SelectSeq(CatOrder, LAMBDA c : c \in Range(X.data[j]))
         IN [k \in DOMAIN found |-> <<X.columns[j], found[k]>>] \o dummy_columns(X, j + 1)

get_dummies(X) ==
    LET cols == dummy_columns(X, 1)
    IN [labeled |-> TRUE, columns |-> cols,
        data |-> [k \in DOMAIN cols |->
                     [i \in DOMAIN X.data[1] |->
                         IF X.data[IndexOf(X.columns, cols[k][1])][i] = cols[k][2]
                         THEN R(1) ELSE R(0)]]]

\* ca.CA.fit(one_hot): the correspondence model of the indicator table it is given.
CA_fit(s, oh) == setattr(s, "ca_fit_", oh)

\* ca.CA accessors: not-fitted before fit, else the projection of the table they are given.
CA_accessor(s, name, oh) ==
    IF ~hasattr(s, "ca_fit_") THEN Err(s, "NotFittedError")
    ELSE Ok(s, Sym(name, <<s["ca_fit_"], oh>>))

\* MCA.fit: K_, the indicator table, J_, then CA.fit on the indicator table.  Every table
\* of CatTables is one that check_array(X, dtype=[str, np.number]) accepts.
MCA_fit(s, X) ==
    LET s1 == setattr(s, "K_", Len(X.columns))
        one_hot == get_dummies(X)
        s2 == setattr(s1, "J_", Len(one_hot.columns))
    IN Ok(CA_fit(s2, one_hot), Sym("self", <<>>))

MCA_row_coordinates(s, X) == CA_accessor(s, "CA.row_coordinates", get_dummies(X))

MCA_row_cosine_similarities(s, X) ==
    LET F == CA_accessor(s, "CA.row_coordinates", get_dummies(X))
    IN IF F.status # "ok" THEN F
       ELSE Ok(F.self, Sym("CA._row_cosine_similarities", <<get_dummies(X), F.value>>))

MCA_column_coordinates(s, X) == CA_accessor(s, "CA.column_coordinates", get_dummies(X))

MCA_column_cosine_similarities(s, X) ==
    LET G == CA_accessor(s, "CA.column_coordinates", get_dummies(X))
    IN IF G.status # "ok" THEN G
       ELSE Ok(G.self, Sym("CA._column_cosine_similarities", <<get_dummies(X), G.value>>))

MCA_transform(s, X) ==
    IF ~hasattr(s, "ca_fit_") THEN Err(s, "NotFittedError") ELSE MCA_row_coordinates(s, X)

MFinish(op, X, r) ==
    /\ mcall.op = "none"
    /\ mca' = r.self
    /\ mcall' = [op |-> op, arg |-> X, oh |-> get_dummies(X), before |-> mca,
                 status |-> r.status, value |-> r.value]
    /\ UNCHANGED <<params, self, pc, call, fitted_on, fit_failed>>

MCAFit == \E X \in CatTables : MFinish("fit", X, MCA_fit(mca, X))

MCARowCoordinates == \E X \in CatTables : MFinish("row_coordinates", X, MCA_row_coordinates(mca, X))

MCARowCosineSimilarities ==
    \E X \in CatTables : MFinish("row_cosine_similarities", X, MCA_row_cosine_similarities(mca, X))

MCAColumnCoordinates ==
    \E X \in CatTables : MFinish("column_coordinates", X, MCA_column_coordinates(mca, X))

MCAColumnCosineSimilarities ==
    \E X \in CatTables :
        MFinish("column_cosine_similarities", X, MCA_column_cosine_similarities(mca, X))

MCATransform == \E X \in CatTables : MFinish("transform", X, MCA_transform(mca, X))

MCAReturn ==
    /\ mcall.op # "none"
    /\ mcall' = [op |-> "none", arg |-> NoTable, oh |-> NoTable, before |-> <<>>,
                 status |-> "none", value |-> Sym("none", <<>>)]
    /\ UNCHANGED <<params, self, pc, call, fitted_on, fit_failed, mca>>

\* A PCA instance built with the defaults stands by while the MCA instance is used.
InitMCA ==
    /\ params = [rescale_with_mean |-> TRUE, rescale_with_std |-> TRUE, n_components |-> 2,
                 check_input |-> TRUE, engine |-> "sklearn"]
    /\ self = <<>>
    /\ pc = "idle"
    /\ call = NoCall
    /\ fitted_on = NoTable
    /\ fit_failed = FALSE
    /\ InitMCAIdle

NextMCA ==
    \/ MCAFit
    \/ MCARowCoordinates
    \/ MCARowCosineSimilarities
    \/ MCAColumnCoordinates
    \/ MCAColumnCosineSimilarities
    \/ MCATransform
    \/ MCAReturn

SpecMCA == InitMCA /\ [][NextMCA]_vars

\* ============================================================== claims
ReadAccessors ==
    {"eigenvalues_", "percentage_of_variance_", "cumulative_percentage_of_variance_",
     "eigenvalues_summary", "row_coordinates", "transform", "inverse_transform",
     "row_standard_coordinates", "row_cosine_similarities", "row_contributions",
     "column_coordinates", "column_correlations", "column_cosine_similarities",
     "column_contributions"}

NeverFitted == fitted_on = NoTable

\* C1: on an instance on which fit has never succeeded, every derived property and every
\* projection method raises NotFittedError, and the instance is still unfitted afterwards.
C1_UnfittedAccessorsRaise ==
    (pc = "returned" /\ call.op \in ReadAccessors /\ NeverFitted)
        => /\ call.status = "NotFittedError"
           /\ ~hasattr(self, "total_inertia_")
           /\ self = call.before

\* C1 witness: an accessor has raised NotFittedError on an instance that a failed fit left
\* with a scaler but no total_inertia_.
C1_Witness ==
    /\ pc = "returned"
    /\ call.op = "column_contributions"
    /\ NeverFitted
    /\ hasattr(call.before, "scaler_")
    /\ call.status = "NotFittedError"

\* C2: for a valid table X (one fit accepts), fit_transform(X) on any instance succeeds,
\* leaves the instance as fit(X) would, and returns what row_coordinates(X) returns after
\* that fit.
C2_FitTransformIsFitThenRowCoordinates ==
    (/\ pc = "returned"
     /\ call.op = "fit_transform"
     /\ IsFiniteMatrix(call.arg.data)
     /\ fit(params, call.before, call.arg).status = "ok")
        => /\ call.status = "ok"
           /\ self = fit(params, call.before, call.arg).self
           /\ row_coordinates(params, self, call.arg, TRUE).status = "ok"
           /\ row_coordinates(params, self, call.arg, TRUE).value = call.value

\* C3: a fit call that fails leaves every stored attribute as it was before the call.
C3_FailedFitChangesNothing ==
    (pc = "returned" /\ call.op = "fit" /\ call.status # "ok") => self = call.before

\* C4: after a sequence of successful fit calls every stored attribute is the one the last fit call alone
\* determines: the instance is what fit makes of a new instance given the same table.
C4_FitReplacesAllState ==
    (pc = "returned" /\ call.op = "fit" /\ call.status = "ok" /\ ~fit_failed)
        => self = fit(params, <<>>, call.arg).self

\* C5: after fitting on a table with column set F, row_coordinates with the default
\* ignore_supplementary_variables=True on a (valid) table whose columns include F does not
\* raise and returns what it returns on that table restricted to F.
C5_SupplementaryColumnsIgnored ==
    (/\ pc = "returned"
     /\ call.op = "row_coordinates"
     /\ call.opt
     /\ fitted_on.labeled
     /\ call.arg.labeled
     /\ Range(fitted_on.columns) \subseteq Range(call.arg.columns)
     /\ IsFiniteMatrix(call.arg.data))
        => /\ call.status = "ok"
           /\ call.value =
                 row_coordinates(params, call.before,
                                 [labeled |-> TRUE,
                                  columns |-> SelectSeq(call.arg.columns,
                                                 LAMBDA c : c \in Range(fitted_on.columns)),
                                  data |-> [i \in 1..Len(fitted_on.columns) |->
                                      call.arg.data[IndexOf(call.arg.columns,
                                          SelectSeq(call.arg.columns,
                                              LAMBDA c : c \in Range(fitted_on.columns))[i])]]],
                                 TRUE).value

\* C6: after MCA.fit, every accessor encodes the table it is given into exactly the
\* indicator columns observed at fit time.
C6_EncodingUsesFitTimeCategories ==
    (/\ mcall.op \in {"row_coordinates", "column_coordinates", "row_cosine_similarities",
                      "column_cosine_similarities"}
     /\ hasattr(mcall.before, "ca_fit_"))
        => mcall.oh.columns = mcall.before["ca_fit_"].columns

\* C7: on an instance fitted on X with n_components = min(n_rows, n_features),
\* inverse_transform(row_coordinates(X)) succeeds: the coordinates go back through the
\* stored right singular vectors and then through the inverse of the stored scaler.
C7_InverseTransformReconstructs ==
    (/\ pc = "returned"
     /\ call.op = "inverse_transform"
     /\ call.opt
     /\ call.arg = fitted_on
     /\ params.n_components = Min(NumRows(call.arg.data), NumCols(call.arg.data)))
        => /\ call.status = "ok"
           /\ LET back == Sym("dot", <<row_coordinates(params, self, call.arg, TRUE).value,
                                       self["svd_"]>>)
              IN call.value = IF hasattr(self, "scaler_")
                              THEN Sym("scaler_.inverse_transform", <<self["scaler_"], back>>)
                              ELSE back

\* Column i of table X as the instance s ought to scale it: a fitted column by the stored
\* mean and std of the column of that name, another column by its own.
ScaledColumn(p, s, X, i) ==
    IF X.columns[i] \in Range(s["feature_names_in_"])
    THEN [r \in DOMAIN X.data[i] |->
             ScaleCell(s["scaler_"], IndexOf(s["feature_names_in_"], X.columns[i]), X.data[i][r])]
    ELSE fit_transform_sup(p, <<X.data[i]>>)[1]

\* C8: when a fitted PCA with a scaler scales a table whose columns include the fit-time
\* columns, the i-th scaled column is the scaled i-th input column, so that each row of
\* column_coordinates carries the name of the column it was computed from.
C8_ScaleKeepsColumnOrder ==
    (/\ pc = "returned"
     /\ call.op = "column_coordinates"
     /\ call.status = "ok"
     /\ hasattr(call.before, "scaler_")
     /\ fitted_on.labeled
     /\ call.before = fit(params, <<>>, fitted_on).self
     /\ call.arg.labeled
     /\ Range(fitted_on.columns) \subseteq Range(call.arg.columns))
        => /\ call.value.index = call.arg.columns
           /\ \A i \in DOMAIN call.value.rows :
                 call.value.rows[i].args[1] = ScaledColumn(params, call.before, call.arg, i)

\* C9: on a fitted instance no read accessor changes a stored attribute.
C9_AccessorsChangeNothing ==
    (pc = "returned" /\ call.op \in ReadAccessors /\ ~NeverFitted) => self = call.before

\* C9 witness: column_coordinates has returned for a table with a supplementary column,
\* scaled on the fly beside the stored scaler's columns.
C9_Witness ==
    /\ pc = "returned"
    /\ call.op = "column_coordinates"
    /\ call.status = "ok"
    /\ hasattr(self, "scaler_")
    /\ hasattr(self, "feature_names_in_")
    /\ Len(call.arg.columns) > Len(self["feature_names_in_"])

\* C10: in every state, the states inside a fit call included, an instance that passes the
\* fitted check has svd_, and has scaler_ when rescaling is configured; and a fit that
\* fails on an instance that did not pass the check leaves it not passing the check.
C10_FittedImpliesSvdAndScaler ==
    /\ hasattr(self, "total_inertia_")
          => /\ hasattr(self, "svd_")
             /\ rescale(params) => hasattr(self, "scaler_")
    /\ (/\ pc = "returned"
        /\ call.op \in {"fit", "fit_transform"}
        /\ call.status # "ok"
        /\ ~hasattr(call.before, "total_inertia_"))
          => ~hasattr(self, "total_inertia_")

\* C10 witness: a first fit has failed at the SVD, after the scaler was stored, and the
\* instance does not pass the fitted check.
C10_Witness ==
    /\ pc = "returned"
    /\ call.op = "fit"
    /\ call.status = "ValueError"
    /\ NeverFitted
    /\ hasattr(self, "scaler_")
    /\ ~hasattr(self, "total_inertia_")

====
